---- MODULE Spec2Model ----
(***************************************************************************)
(* Workflow-progression hooks of config_for_claude_code:                   *)
(*   src/src/hooks/post_todowrite.py    (stage 1 -> 2)                      *)
(*   src/src/hooks/post_diagnostics.py  (stage 2 -> 3)                      *)
(*   src/src/hooks/post_code_review.py  (stage 3 -> 4)                      *)
(*                                                                         *)
(* The session transcript is an append-only sequence of lines.  A hook is  *)
(* a one-shot process: it reads a request from stdin, possibly reads the   *)
(* transcript, prints at most one JSON object and exits.                   *)
(*                                                                         *)
(* Python values are modelled as follows.                                  *)
(*   dict        a function with a set of strings as domain; d.get(k, v)   *)
(*               is Get(d, k, v)                                           *)
(*   list        a sequence                                                *)
(*   a line / a stdin payload                                              *)
(*               [kind |-> "blank"]    only whitespace                     *)
(*               [kind |-> "garbage"]  json raises JSONDecodeError         *)
(*               [kind |-> "scalar"]   valid JSON that is not an object    *)
(*               [kind |-> "object", value |-> dict]                       *)
(*               [kind |-> "partial", cut |-> c, whole |-> line]           *)
(*                    the first bytes of an object line that is being      *)
(*                    written, cut at a character boundary or inside a     *)
(*                    multi-byte character                                 *)
(*   a call that may raise                                                 *)
(*               [raised |-> TRUE] or [raised |-> FALSE, value |-> v]      *)
(*   text        a sequence of whitespace-separated tokens                 *)
(***************************************************************************)
EXTENDS Integers, Sequences, FiniteSets, TLC

VARIABLES
    log,    \* the transcript file: the lines appended so far
    out,    \* the hook process that ran last and what it produced
    arg,    \* unit checks: the argument of the function under check
    ret     \* unit checks: what the function returned

vars == <<log, out, arg, ret>>

---------------------------------------------------------------------------
(* Bounds of the model *)

\* longest transcript explored
MaxLog == 3
\* longest task list / findings list / history handed to a function alone
MaxTasks == 3
MaxFindings == 2
MaxHist == 4
\* longest command output, in tokens, handed to is_diagnostics_clean_bash alone
MaxWords == 3
MaxFnLines == 3
MaxLookbackArg == 2
\* the lookback windows, scaled down so that a transcript can outgrow them
\* (post_diagnostics.py:30 has lookback=100, post_code_review.py:27 has 200)
DiagLookback == 2
ReviewLookback == 2

---------------------------------------------------------------------------
(* Python helpers *)

EmptyDict == [k \in {} |-> ""]

Get(d, k, default) == IF k \in DOMAIN d THEN d[k] ELSE default

Raise == [raised |-> TRUE]
Return(v) == [raised |-> FALSE, value |-> v]

\* Optional[List]: None or a list
None == [isNone |-> TRUE, list |-> <<>>]
Some(l) == [isNone |-> FALSE, list |-> l]
\* truthiness of an Optional[List]: None and [] are falsy
Truthy(o) == ~o.isNone /\ o.list # <<>>

\* s[-n:] for n >= 0.  Python reads -0 as 0, so s[-0:] is the whole list.
LastN(s, n) ==
    IF n = 0 \/ n >= Len(s) THEN s
    ELSE SubSeq(s, Len(s) - n + 1, Len(s))

---------------------------------------------------------------------------
(* The file system: the session transcript, a path that names no file, and a *)
(* path that exists but cannot be opened for reading (a directory, a file     *)
(* without read permission)                                                   *)

LogPath == "/session/transcript.jsonl"
MissingPath == "/session/missing.jsonl"
UnreadablePath == "/session/unreadable"

os_path_exists(path) == path \in {LogPath, UnreadablePath}
\* open(transcript_path, 'r', encoding='utf-8') raises OSError
open_raises_OSError(path) == path = UnreadablePath

---------------------------------------------------------------------------
(* post_todowrite.py *)

\* the body of the for loop of parse_transcript, from line i on
RECURSIVE parse_transcript_scan(_, _, _)
parse_transcript_scan(lines, i, last_todos) ==
    IF i > Len(lines) THEN Return(last_todos)
    ELSE LET line == lines[i] IN
        IF line.kind = "blank" THEN parse_transcript_scan(lines, i + 1, last_todos)
        ELSE IF line.kind = "garbage" THEN parse_transcript_scan(lines, i + 1, last_todos)
        ELSE IF line.kind = "scalar" THEN Raise   \* entry.get: AttributeError, not caught
        ELSE IF line.kind = "partial"
        THEN IF line.cut = "inside" THEN Raise    \* for line in f: UnicodeDecodeError
             ELSE parse_transcript_scan(lines, i + 1, last_todos)   \* JSONDecodeError
        ELSE LET entry == line.value IN
            IF Get(entry, "type", "None") = "tool_use"
               /\ Get(entry, "name", "None") = "TodoWrite"
            THEN LET tool_input == Get(entry, "input", EmptyDict)
                     todos == Get(tool_input, "todos", <<>>)
                 IN IF todos # <<>>
                    THEN parse_transcript_scan(lines, i + 1, Some(todos))
                    ELSE parse_transcript_scan(lines, i + 1, last_todos)
            ELSE parse_transcript_scan(lines, i + 1, last_todos)

\* mutant: the OSError of open() is not caught
parse_transcript_oserror_uncaught(transcript_path, lines) ==
    IF ~os_path_exists(transcript_path) THEN Return(None)
    ELSE IF open_raises_OSError(transcript_path) THEN Raise
    ELSE parse_transcript_scan(lines, 1, None)

\* mutant: the first non-empty task list is kept, later ones do not replace it
RECURSIVE parse_transcript_scan_first(_, _, _)
parse_transcript_scan_first(lines, i, last_todos) ==
    IF i > Len(lines) THEN Return(last_todos)
    ELSE LET line == lines[i] IN
        IF line.kind \in {"blank", "garbage", "partial"}
        THEN parse_transcript_scan_first(lines, i + 1, last_todos)
        ELSE IF line.kind = "scalar" THEN Raise
        ELSE LET entry == line.value
                 todos == Get(Get(entry, "input", EmptyDict), "todos", <<>>)
             IN IF Get(entry, "type", "None") = "tool_use"
                   /\ Get(entry, "name", "None") = "TodoWrite"
                   /\ todos # <<>> /\ last_todos.isNone
                THEN parse_transcript_scan_first(lines, i + 1, Some(todos))
                ELSE parse_transcript_scan_first(lines, i + 1, last_todos)

parse_transcript_first(transcript_path, lines) ==
    IF ~os_path_exists(transcript_path) THEN Return(None)
    ELSE IF open_raises_OSError(transcript_path) THEN Return(None)
    ELSE parse_transcript_scan_first(lines, 1, None)

parse_transcript(transcript_path, lines) ==
    IF ~os_path_exists(transcript_path) THEN Return(None)
    ELSE IF open_raises_OSError(transcript_path) THEN Return(None)   \* lines 59-61
    ELSE parse_transcript_scan(lines, 1, None)

\* all(todo.get("status") == "completed" for todo in todos), left to right
RECURSIVE all_status_completed(_, _)
all_status_completed(todos, i) ==
    IF i > Len(todos) THEN TRUE
    ELSE IF Get(todos[i], "status", "None") = "completed"
         THEN all_status_completed(todos, i + 1)
         ELSE FALSE

\* mutant: the emptiness test of line 76 is dropped, so all() of nothing is True
all_tasks_completed_vacuous(todos) == all_status_completed(todos, 1)

all_tasks_completed(todos) ==
    IF todos = <<>> THEN FALSE
    ELSE all_status_completed(todos, 1)

---------------------------------------------------------------------------
(* What a hook process leaves behind: its exit status and its stdout *)

\* print(json.dumps(response)); sys.exit(0)
PrintAndExit0(response) == [exit |-> 0, printed |-> TRUE, response |-> response]
\* sys.exit(code) with nothing on stdout
ExitSilently(code) == [exit |-> code, printed |-> FALSE, response |-> EmptyDict]
\* an exception nobody catches: traceback on stderr, exit status 1
Traceback == [exit |-> 1, printed |-> FALSE, response |-> EmptyDict]

\* mutant: the task list is taken from the request's tool_input, not the log
post_todowrite_main_from_request(stdin, lines) ==
    IF stdin.kind \in {"garbage", "blank"} THEN ExitSilently(1)
    ELSE IF stdin.kind = "scalar" THEN Traceback
    ELSE LET input_data == stdin.value
             tool_name == Get(input_data, "tool_name", "")
             transcript_path == Get(input_data, "transcript_path", "")
             todos == Get(Get(input_data, "tool_input", EmptyDict), "todos", <<>>)
         IN IF tool_name # "TodoWrite" THEN ExitSilently(0)
            ELSE IF transcript_path = "" THEN ExitSilently(0)
            ELSE IF todos # <<>> /\ all_tasks_completed(todos)
                 THEN PrintAndExit0(
                        [decision |-> "block",
                         reason |-> "create_injection_prompt",
                         hookSpecificOutput |->
                           [hookEventName |-> "PostToolUse",
                            completedTasks |-> Len(todos)]])
                 ELSE PrintAndExit0(EmptyDict)

post_todowrite_main(stdin, lines) ==
    IF stdin.kind \in {"garbage", "blank"} THEN ExitSilently(1)   \* JSONDecodeError, line 116
    ELSE IF stdin.kind = "scalar" THEN Traceback                   \* input_data.get
    ELSE LET input_data == stdin.value
             tool_name == Get(input_data, "tool_name", "")
             transcript_path == Get(input_data, "transcript_path", "")
         IN IF tool_name # "TodoWrite" THEN ExitSilently(0)
            ELSE IF transcript_path = "" THEN ExitSilently(0)
            ELSE LET parsed == parse_transcript(transcript_path, lines) IN
                IF parsed.raised THEN Traceback
                ELSE LET todos == parsed.value IN
                    IF Truthy(todos) /\ all_tasks_completed(todos.list)
                    THEN PrintAndExit0(
                           [decision |-> "block",
                            reason |-> "create_injection_prompt",
                            hookSpecificOutput |->
                              [hookEventName |-> "PostToolUse",
                               completedTasks |-> Len(todos.list)]])
                    ELSE PrintAndExit0(EmptyDict)

---------------------------------------------------------------------------
(* post_diagnostics.py *)

\* the body of the for loop of parse_transcript_recent, from line i on
RECURSIVE diag_parse_scan(_, _, _)
diag_parse_scan(lines, i, recent_entries) ==
    IF i > Len(lines) THEN Return(recent_entries)
    ELSE LET line == lines[i] IN
        IF line.kind = "blank" THEN diag_parse_scan(lines, i + 1, recent_entries)
        ELSE IF line.kind = "garbage" THEN diag_parse_scan(lines, i + 1, recent_entries)
        ELSE IF line.kind = "scalar" THEN Raise   \* entry.get: AttributeError, not caught
        ELSE IF line.kind = "partial"
        THEN IF line.cut = "inside" THEN Raise    \* for line in f: UnicodeDecodeError
             ELSE diag_parse_scan(lines, i + 1, recent_entries)     \* JSONDecodeError
        ELSE LET entry == line.value IN
            IF Get(entry, "type", "None") = "tool_use"
            THEN diag_parse_scan(lines, i + 1, Append(recent_entries, entry))
            ELSE diag_parse_scan(lines, i + 1, recent_entries)

\* mutant: the slice misses the newest entry, recent_entries[-lookback-1:-1]
diag_parse_transcript_stale(transcript_path, lines, lookback) ==
    IF ~os_path_exists(transcript_path) THEN Return(<<>>)
    ELSE IF open_raises_OSError(transcript_path) THEN Return(<<>>)
    ELSE LET scanned == diag_parse_scan(lines, 1, <<>>) IN
        IF scanned.raised THEN Raise
        ELSE IF scanned.value = <<>> THEN Return(<<>>)
        ELSE Return(LastN(SubSeq(scanned.value, 1, Len(scanned.value) - 1), lookback))

\* mutant: the slice keeps the oldest entries, recent_entries[:lookback]
diag_parse_transcript_oldest(transcript_path, lines, lookback) ==
    IF ~os_path_exists(transcript_path) THEN Return(<<>>)
    ELSE IF open_raises_OSError(transcript_path) THEN Return(<<>>)
    ELSE LET scanned == diag_parse_scan(lines, 1, <<>>) IN
        IF scanned.raised THEN Raise
        ELSE Return(SubSeq(scanned.value, 1,
                           IF lookback < Len(scanned.value) THEN lookback
                           ELSE Len(scanned.value)))

diag_parse_transcript_recent(transcript_path, lines, lookback) ==
    IF ~os_path_exists(transcript_path) THEN Return(<<>>)
    ELSE IF open_raises_OSError(transcript_path) THEN Return(<<>>)   \* lines 59-61
    ELSE LET scanned == diag_parse_scan(lines, 1, <<>>) IN
        IF scanned.raised THEN Raise
        ELSE Return(LastN(scanned.value, lookback))

\* any(d.get("severity", 999) <= 1 for d in diagnostics), left to right
RECURSIVE any_severity_critical(_, _)
any_severity_critical(diagnostics, i) ==
    IF i > Len(diagnostics) THEN FALSE
    ELSE IF Get(diagnostics[i], "severity", 999) <= 1 THEN TRUE
         ELSE any_severity_critical(diagnostics, i + 1)

\* mutant: only errors block, severity < 1
RECURSIVE any_severity_error(_, _)
any_severity_error(diagnostics, i) ==
    IF i > Len(diagnostics) THEN FALSE
    ELSE IF Get(diagnostics[i], "severity", 999) < 1 THEN TRUE
         ELSE any_severity_error(diagnostics, i + 1)

is_diagnostics_clean_mcp_errors_only(tool_response) ==
    LET diagnostics == Get(tool_response, "diagnostics", <<>>)
    IN ~any_severity_error(diagnostics, 1)

is_diagnostics_clean_mcp(tool_response) ==
    LET diagnostics == Get(tool_response, "diagnostics", <<>>)
    IN ~any_severity_critical(diagnostics, 1)

\* Command output is a sequence of tokens; the text is the tokens joined by single
\* spaces.  NL is a line break, CROSS the failure glyph U+2716.
NL == "\\n"
CROSS == "U+2716"

\* re.IGNORECASE: the token in lower case
Fold(t) ==
    CASE t = "Error:" -> "error:"
      [] t = "ERROR:" -> "error:"
      [] t = "FAILED" -> "failed"
      [] t = "Failed" -> "failed"
      [] t = "Errors" -> "errors"
      [] t = "Found" -> "found"
      [] t = "Compilation" -> "compilation"
      [] t = "Type" -> "type"
      [] OTHER -> t

\* what the folded tokens of the vocabulary contain
BeginsError(t) == Fold(t) \in {"error", "errors", "error:"}
ContainsError(t) == Fold(t) \in {"error", "errors", "error:"}
ContainsErrorColon(t) == Fold(t) = "error:"
ContainsFailed(t) == Fold(t) = "failed"
EndsDigit(t) == t \in {"0", "3"}
EndsFound(t) == Fold(t) = "found"
EndsCompilation(t) == Fold(t) = "compilation"
EndsType(t) == Fold(t) = "type"
ContainsMypy(t) == Fold(t) = "mypy:"

NoLineBreak(output, i, j) == \A k \in (i + 1)..(j - 1) : output[k] # NL
OnlyWhitespace(output, i, j) == \A k \in (i + 1)..(j - 1) : output[k] = NL

\* re.search(pattern, output, re.IGNORECASE) for the patterns of lines 96-105
error_patterns(output) ==
    LET I == DOMAIN output IN
    << \* \d+\s+error(s)?
       \E i, j \in I : i < j /\ EndsDigit(output[i]) /\ BeginsError(output[j])
                         /\ OnlyWhitespace(output, i, j),
       \* ERROR:
       \E i \in I : ContainsErrorColon(output[i]),
       \* FAILED
       \E i \in I : ContainsFailed(output[i]),
       \* the failure glyph
       \E i \in I : output[i] = CROSS,
       \* found .* error
       \E i, j \in I : i + 2 <= j /\ EndsFound(output[i]) /\ BeginsError(output[j])
                         /\ NoLineBreak(output, i, j),
       \* compilation failed
       \E i, j \in I : j = i + 1 /\ EndsCompilation(output[i]) /\ ContainsFailed(output[j]),
       \* type error
       \E i, j \in I : j = i + 1 /\ EndsType(output[i]) /\ BeginsError(output[j]),
       \* mypy:.*error
       \E i, j \in I : i < j /\ ContainsMypy(output[i]) /\ ContainsError(output[j])
                         /\ NoLineBreak(output, i, j) >>

\* for pattern in error_patterns: if re.search(...): return False
RECURSIVE no_pattern_matches(_, _)
no_pattern_matches(matches, i) ==
    IF i > Len(matches) THEN TRUE
    ELSE IF matches[i] THEN FALSE
         ELSE no_pattern_matches(matches, i + 1)

\* mutant: a response without exit_code counts as exit status 0
is_diagnostics_clean_bash_default_zero(tool_response) ==
    LET exit_code == Get(tool_response, "exit_code", 0)
        output == Get(tool_response, "output", <<>>)
    IN IF exit_code # 0 THEN FALSE
       ELSE no_pattern_matches(error_patterns(output), 1)

\* mutant: only the exit status is looked at, the output is not searched
is_diagnostics_clean_bash_exit_only(tool_response) ==
    Get(tool_response, "exit_code", 1) = 0

is_diagnostics_clean_bash(tool_response) ==
    LET exit_code == Get(tool_response, "exit_code", 1)
        output == Get(tool_response, "output", <<>>)
    IN IF exit_code # 0 THEN FALSE
       ELSE no_pattern_matches(error_patterns(output), 1)

\* the for loop of is_workflow_active_and_code_reviewer_not_called; idx = i - 1
RECURSIVE cycle_guard_scan(_, _, _, _)
cycle_guard_scan(recent_entries, i, last_todowrite_idx, last_code_reviewer_idx) ==
    IF i > Len(recent_entries)
    THEN last_todowrite_idx > last_code_reviewer_idx /\ last_todowrite_idx >= 0
    ELSE LET entry == recent_entries[i]
             idx == i - 1
             tool_name == Get(entry, "name", "")
             tool_input == Get(entry, "input", EmptyDict)
             tw == IF tool_name = "TodoWrite" THEN idx ELSE last_todowrite_idx
             cr == IF tool_name = "Task"
                      /\ Get(tool_input, "subagent_type", "None") = "code-reviewer"
                   THEN idx ELSE last_code_reviewer_idx
         IN cycle_guard_scan(recent_entries, i + 1, tw, cr)

\* mutant: every Task counts as a reviewer invocation (subagent_type not read)
RECURSIVE cycle_guard_scan_any_task(_, _, _, _)
cycle_guard_scan_any_task(recent_entries, i, last_todowrite_idx, last_code_reviewer_idx) ==
    IF i > Len(recent_entries)
    THEN last_todowrite_idx > last_code_reviewer_idx /\ last_todowrite_idx >= 0
    ELSE LET idx == i - 1
             tool_name == Get(recent_entries[i], "name", "")
             tw == IF tool_name = "TodoWrite" THEN idx ELSE last_todowrite_idx
             cr == IF tool_name = "Task" THEN idx ELSE last_code_reviewer_idx
         IN cycle_guard_scan_any_task(recent_entries, i + 1, tw, cr)

cycle_guard_any_task(recent_entries) ==
    cycle_guard_scan_any_task(recent_entries, 1, -1, -1)

is_workflow_active_and_code_reviewer_not_called(recent_entries) ==
    cycle_guard_scan(recent_entries, 1, -1, -1)

post_diagnostics_main(stdin, lines) ==
    IF stdin.kind \in {"garbage", "blank"} THEN PrintAndExit0(EmptyDict)
    ELSE IF stdin.kind = "scalar" THEN Traceback                   \* input_data.get
    ELSE LET input_data == stdin.value
             tool_name == Get(input_data, "tool_name", "")
             transcript_path == Get(input_data, "transcript_path", "")
             tool_response == Get(input_data, "tool_response", EmptyDict)
             is_clean == IF tool_name = "mcp__vscode-mcp__get_diagnostics"
                         THEN is_diagnostics_clean_mcp(tool_response)
                         ELSE IF tool_name = "Bash"
                         THEN is_diagnostics_clean_bash(tool_response)
                         ELSE FALSE
         IN IF tool_name \notin {"mcp__vscode-mcp__get_diagnostics", "Bash"}
            THEN PrintAndExit0(EmptyDict)
            ELSE IF transcript_path = "" THEN PrintAndExit0(EmptyDict)
            ELSE IF ~is_clean THEN PrintAndExit0(EmptyDict)
            ELSE LET parsed == diag_parse_transcript_recent(transcript_path, lines,
                                                            DiagLookback) IN
                IF parsed.raised THEN Traceback
                ELSE IF ~is_workflow_active_and_code_reviewer_not_called(parsed.value)
                THEN PrintAndExit0(EmptyDict)
                ELSE PrintAndExit0(
                       [decision |-> "block",
                        reason |-> "create_code_review_prompt",
                        hookSpecificOutput |->
                          [hookEventName |-> "PostToolUse",
                           stage |-> "diagnostics_clean_to_code_review",
                           diagnosticsTool |-> tool_name]])

---------------------------------------------------------------------------
(* post_code_review.py *)

\* the body of the for loop of parse_transcript_recent, from line i on
RECURSIVE review_parse_scan(_, _, _)
review_parse_scan(lines, i, recent_entries) ==
    IF i > Len(lines) THEN Return(recent_entries)
    ELSE LET line == lines[i] IN
        IF line.kind = "blank" THEN review_parse_scan(lines, i + 1, recent_entries)
        ELSE IF line.kind = "garbage" THEN review_parse_scan(lines, i + 1, recent_entries)
        ELSE IF line.kind = "partial"
        THEN IF line.cut = "inside" THEN Raise    \* for line in f: UnicodeDecodeError
             ELSE review_parse_scan(lines, i + 1, recent_entries)   \* JSONDecodeError
        ELSE review_parse_scan(lines, i + 1, Append(recent_entries, line))

\* the entries are kept as decoded JSON values: an object or a scalar
review_parse_transcript_recent(transcript_path, lines, lookback) ==
    IF ~os_path_exists(transcript_path) THEN Return(<<>>)
    ELSE IF open_raises_OSError(transcript_path) THEN Return(<<>>)   \* lines 55-57
    ELSE LET scanned == review_parse_scan(lines, 1, <<>>) IN
        IF scanned.raised THEN Raise
        ELSE Return(LastN(scanned.value, lookback))

\* mutant: every Task counts as a reviewer invocation
is_code_reviewer_task_any(tool_input) == TRUE

is_code_reviewer_task(tool_input) ==
    Get(tool_input, "subagent_type", "None") = "code-reviewer"

\* for entry in recent_entries: the first TodoWrite tool use returns True
RECURSIVE is_workflow_active_scan(_, _)
is_workflow_active_scan(recent_entries, i) ==
    IF i > Len(recent_entries) THEN Return(FALSE)
    ELSE LET json == recent_entries[i] IN
        IF json.kind = "scalar" THEN Raise    \* entry.get: AttributeError
        ELSE IF Get(json.value, "type", "None") = "tool_use"
                /\ Get(json.value, "name", "None") = "TodoWrite"
        THEN Return(TRUE)
        ELSE is_workflow_active_scan(recent_entries, i + 1)

is_workflow_active(recent_entries) == is_workflow_active_scan(recent_entries, 1)

post_code_review_main(stdin, lines) ==
    IF stdin.kind \in {"garbage", "blank"} THEN PrintAndExit0(EmptyDict)
    ELSE IF stdin.kind = "scalar" THEN Traceback                   \* input_data.get
    ELSE LET input_data == stdin.value
             tool_name == Get(input_data, "tool_name", "")
             tool_input == Get(input_data, "tool_input", EmptyDict)
             transcript_path == Get(input_data, "transcript_path", "")
         IN IF tool_name # "Task" THEN PrintAndExit0(EmptyDict)
            ELSE IF ~is_code_reviewer_task(tool_input) THEN PrintAndExit0(EmptyDict)
            ELSE IF transcript_path = "" THEN PrintAndExit0(EmptyDict)
            ELSE LET parsed == review_parse_transcript_recent(transcript_path, lines,
                                                              ReviewLookback)
                     active == is_workflow_active(parsed.value) IN
                IF parsed.raised THEN Traceback
                ELSE IF active.raised THEN Traceback
                ELSE IF ~active.value THEN PrintAndExit0(EmptyDict)
                ELSE PrintAndExit0(
                       [decision |-> "block",
                        reason |-> "create_final_report_prompt",
                        hookSpecificOutput |->
                          [hookEventName |-> "PostToolUse",
                           stage |-> "code_review_to_final_report",
                           subagentType |-> "code-reviewer"]])

---------------------------------------------------------------------------
(* The lines a transcript is made of *)

Object(d) == [kind |-> "object", value |-> d]
Blank == [kind |-> "blank"]
Garbage == [kind |-> "garbage"]
Scalar == [kind |-> "scalar"]

Task(status) == [content |-> "t", status |-> status]
TaskNoStatus == [content |-> "t"]

AllDone3 == <<Task("completed"), Task("completed"), Task("completed")>>
Mixed2 == <<Task("completed"), Task("pending")>>
\* the task lists TodoWrite events of a transcript carry
LogSnapshots == {<<>>, AllDone3, Mixed2}

TodoWriteLine(todos) ==
    Object([type |-> "tool_use", name |-> "TodoWrite", input |-> [todos |-> todos]])
\* a TodoWrite event whose input has no task list
TodoWriteNoTodos ==
    Object([type |-> "tool_use", name |-> "TodoWrite", input |-> EmptyDict])
TaskLine(role) ==
    Object([type |-> "tool_use", name |-> "Task", input |-> [subagent_type |-> role]])
BashLine ==
    Object([type |-> "tool_use", name |-> "Bash", input |-> [command |-> "tsc"]])
UserLine == Object([type |-> "user"])

\* event records, as the producer appends them
EventLines ==
    {TodoWriteLine(t) : t \in LogSnapshots}
    \cup {TodoWriteNoTodos, TaskLine("code-reviewer"), TaskLine("general-purpose"),
          BashLine, UserLine}
\* lines every reader skips: whitespace, and text that is not JSON
NoiseLines == {Blank, Garbage}

---------------------------------------------------------------------------
(* The requests a hook reads from stdin *)

Request(d) == [kind |-> "object", value |-> d]

CleanOutput == <<"all", "checks", "passed">>
FailedOutput == <<"2", "tests", "FAILED">>

TodoWriteRequests ==
    {Garbage, Scalar}
    \cup {Request([tool_name |-> "TodoWrite", tool_input |-> [todos |-> t],
                   transcript_path |-> LogPath]) : t \in {<<>>, AllDone3}}
    \cup {Request([tool_name |-> "TodoWrite", tool_input |-> [todos |-> AllDone3],
                   transcript_path |-> MissingPath]),
          Request([tool_name |-> "TodoWrite", tool_input |-> [todos |-> AllDone3],
                   transcript_path |-> UnreadablePath]),
          Request([tool_name |-> "TodoWrite", tool_input |-> [todos |-> AllDone3]]),
          Request([tool_name |-> "Bash", tool_input |-> [command |-> "tsc"],
                   transcript_path |-> LogPath])}

McpResponses ==
    {EmptyDict,
     [diagnostics |-> <<[severity |-> 2], [message |-> "m"]>>],
     [diagnostics |-> <<[severity |-> 3], [severity |-> 1]>>]}
BashResponses ==
    {[exit_code |-> 0, output |-> CleanOutput],
     [exit_code |-> 0, output |-> FailedOutput],
     [exit_code |-> 1, output |-> CleanOutput],
     [output |-> CleanOutput]}

DiagnosticsRequests ==
    {Garbage, Scalar}
    \cup {Request([tool_name |-> "mcp__vscode-mcp__get_diagnostics",
                   tool_response |-> r, transcript_path |-> LogPath]) : r \in McpResponses}
    \cup {Request([tool_name |-> "Bash", tool_response |-> r,
                   transcript_path |-> LogPath]) : r \in BashResponses}
    \cup {Request([tool_name |-> "Bash", tool_response |-> [exit_code |-> 0,
                   output |-> CleanOutput], transcript_path |-> MissingPath]),
          Request([tool_name |-> "Bash", tool_response |-> [exit_code |-> 0,
                   output |-> CleanOutput], transcript_path |-> UnreadablePath]),
          Request([tool_name |-> "mcp__vscode-mcp__get_diagnostics",
                   tool_response |-> EmptyDict]),
          Request([tool_name |-> "Read", tool_response |-> EmptyDict,
                   transcript_path |-> LogPath])}

CodeReviewRequests ==
    {Garbage, Scalar}
    \cup {Request([tool_name |-> "Task", tool_input |-> i, transcript_path |-> LogPath]) :
            i \in {[subagent_type |-> "code-reviewer"],
                   [subagent_type |-> "general-purpose"],
                   [prompt |-> "p"]}}
    \cup {Request([tool_name |-> "Task", tool_input |-> [subagent_type |-> "code-reviewer"],
                   transcript_path |-> MissingPath]),
          Request([tool_name |-> "Task", tool_input |-> [subagent_type |-> "code-reviewer"],
                   transcript_path |-> UnreadablePath]),
          Request([tool_name |-> "Task", tool_input |-> [subagent_type |-> "code-reviewer"]]),
          Request([tool_name |-> "TodoWrite", tool_input |-> [todos |-> AllDone3],
                   transcript_path |-> LogPath])}

---------------------------------------------------------------------------
(* The transcript and the hook processes *)

Idle == [hook |-> "idle", stdin |-> Blank, result |-> ExitSilently(0)]

NoCall == [fn |-> "none", x |-> <<>>]
NoReturn == [done |-> FALSE, value |-> FALSE]

Init ==
    /\ log = <<>>
    /\ out = Idle
    /\ arg = NoCall
    /\ ret = NoReturn

\* the producer appends one event record
AppendEvent ==
    /\ out = Idle
    /\ Len(log) < MaxLog
    /\ \E line \in EventLines : log' = Append(log, line)
    /\ UNCHANGED <<out, arg, ret>>

\* a line that is blank or not JSON ends up in the transcript
AppendNoise ==
    /\ out = Idle
    /\ Len(log) < MaxLog
    /\ \E line \in NoiseLines : log' = Append(log, line)
    /\ UNCHANGED <<out, arg, ret>>

\* a line that is JSON but not an object ends up in the transcript
AppendScalar ==
    /\ out = Idle
    /\ Len(log) < MaxLog
    /\ log' = Append(log, Scalar)
    /\ UNCHANGED <<out, arg, ret>>

RunPostTodoWrite ==
    /\ out = Idle
    /\ \E stdin \in TodoWriteRequests :
          out' = [hook |-> "post_todowrite", stdin |-> stdin,
                  result |-> post_todowrite_main(stdin, log)]
    /\ UNCHANGED <<log, arg, ret>>

RunPostDiagnostics ==
    /\ out = Idle
    /\ \E stdin \in DiagnosticsRequests :
          out' = [hook |-> "post_diagnostics", stdin |-> stdin,
                  result |-> post_diagnostics_main(stdin, log)]
    /\ UNCHANGED <<log, arg, ret>>

RunPostCodeReview ==
    /\ out = Idle
    /\ \E stdin \in CodeReviewRequests :
          out' = [hook |-> "post_code_review", stdin |-> stdin,
                  result |-> post_code_review_main(stdin, log)]
    /\ UNCHANGED <<log, arg, ret>>

\* the process is gone; nothing of it stays behind
HookExit ==
    /\ out # Idle
    /\ out' = Idle
    /\ UNCHANGED <<log, arg, ret>>

Next ==
    \/ AppendEvent
    \/ AppendNoise
    \/ RunPostTodoWrite
    \/ RunPostDiagnostics
    \/ RunPostCodeReview
    \/ HookExit

Spec == Init /\ [][Next]_vars

NextCorrupt ==
    \/ AppendEvent
    \/ AppendNoise
    \/ AppendScalar
    \/ RunPostTodoWrite
    \/ RunPostDiagnostics
    \/ RunPostCodeReview
    \/ HookExit

\* the transcript may also hold JSON lines that are not objects
SpecCorrupt == Init /\ [][NextCorrupt]_vars

\* The producer writes a line in two steps and a hook may read in between: the
\* file then ends in the first bytes of the line, cut between two characters
\* ("boundary") or inside a multi-byte UTF-8 character ("inside").
Partial(line, cut) == [kind |-> "partial", cut |-> cut, whole |-> line]

WriteInProgress == log # <<>> /\ log[Len(log)].kind = "partial"

BeginAppend ==
    /\ out = Idle
    /\ Len(log) < MaxLog
    /\ ~WriteInProgress
    /\ \E line \in EventLines, cut \in {"boundary", "inside"} :
          log' = Append(log, Partial(line, cut))
    /\ UNCHANGED <<out, arg, ret>>

FinishAppend ==
    /\ out = Idle
    /\ WriteInProgress
    /\ log' = [log EXCEPT ![Len(log)] = log[Len(log)].whole]
    /\ UNCHANGED <<out, arg, ret>>

NextConcurrent ==
    \/ BeginAppend
    \/ FinishAppend
    \/ RunPostTodoWrite
    \/ RunPostDiagnostics
    \/ RunPostCodeReview
    \/ HookExit

SpecConcurrent == Init /\ [][NextConcurrent]_vars

---------------------------------------------------------------------------
(* Unit checks: one function applied to one argument drawn from a bounded set *)

SeqsUpTo(S, n) == UNION {[1..k -> S] : k \in 0..n}

TaskChoices == {Task("pending"), Task("in_progress"), Task("completed"), TaskNoStatus}
FindingChoices == {[severity |-> v] : v \in 0..3} \cup {[message |-> "m"]}

\* tool-use entries, as parse_transcript_recent of post_diagnostics.py returns them
TodoWriteEntry == TodoWriteLine(Mixed2).value
ReviewerEntry == TaskLine("code-reviewer").value
OtherTaskEntry == TaskLine("general-purpose").value
BashEntry == BashLine.value
ToolUseEntries == {TodoWriteEntry, ReviewerEntry, OtherTaskEntry, BashEntry}

\* a history of n entries with TodoWrite events at the positions tw and reviewer
\* invocations at the positions cr (positions count from 0)
HistoryWith(n, tw, cr) ==
    [i \in 1..n |-> IF (i - 1) \in tw THEN TodoWriteEntry
                    ELSE IF (i - 1) \in cr THEN ReviewerEntry
                    ELSE BashEntry]

\* [TodoWrite@3, reviewer@7, TodoWrite@10] and [TodoWrite@3, reviewer@7]
HistoryFresh == HistoryWith(11, {3, 10}, {7})
HistoryStale == HistoryWith(8, {3}, {7})

\* the tokens of a command output
Words ==
    {"ok", "3", "errors", "Error:", "FAILED", "failed", CROSS, "found",
     "Compilation", "type", "mypy:", NL}

BashResults ==
    {[exit_code |-> c, output |-> o] : c \in {0, 1}, o \in SeqsUpTo(Words, MaxWords)}
    \cup {[output |-> o] : o \in SeqsUpTo(Words, MaxWords)}
    \cup {[exit_code |-> 0]}

\* transcripts and lookback arguments of the calls of parse_transcript_recent
FnLines == {TodoWriteLine(Mixed2), BashLine, UserLine, Garbage}

Transcripts == SeqsUpTo(FnLines, MaxFnLines)

Lookbacks == 0..MaxLookbackArg

Calls ==
    {[fn |-> f, x |-> [lines |-> l, lookback |-> n]] :
        f \in {"post_diagnostics.parse_transcript_recent",
                "post_code_review.parse_transcript_recent"},
        l \in Transcripts, n \in Lookbacks} \cup
    {[fn |-> "is_diagnostics_clean_bash", x |-> r] : r \in BashResults} \cup
    {[fn |-> "all_tasks_completed", x |-> t] : t \in SeqsUpTo(TaskChoices, MaxTasks)}
    \cup {[fn |-> "is_diagnostics_clean_mcp", x |-> [diagnostics |-> d]] :
            d \in SeqsUpTo(FindingChoices, MaxFindings)}
    \cup {[fn |-> "is_diagnostics_clean_mcp", x |-> EmptyDict]}
    \cup {[fn |-> "is_workflow_active_and_code_reviewer_not_called", x |-> h] :
            h \in SeqsUpTo(ToolUseEntries, MaxHist) \cup {HistoryFresh, HistoryStale}}

InitFn ==
    /\ log = <<>>
    /\ out = Idle
    /\ arg \in Calls
    /\ ret = NoReturn

Call_all_tasks_completed ==
    /\ arg.fn = "all_tasks_completed"
    /\ ~ret.done
    /\ ret' = [done |-> TRUE, value |-> all_tasks_completed(arg.x)]
    /\ UNCHANGED <<log, out, arg>>

Call_is_diagnostics_clean_mcp ==
    /\ arg.fn = "is_diagnostics_clean_mcp"
    /\ ~ret.done
    /\ ret' = [done |-> TRUE, value |-> is_diagnostics_clean_mcp(arg.x)]
    /\ UNCHANGED <<log, out, arg>>

Call_is_workflow_active_and_code_reviewer_not_called ==
    /\ arg.fn = "is_workflow_active_and_code_reviewer_not_called"
    /\ ~ret.done
    /\ ret' = [done |-> TRUE,
               value |-> is_workflow_active_and_code_reviewer_not_called(arg.x)]
    /\ UNCHANGED <<log, out, arg>>

Call_is_diagnostics_clean_bash ==
    /\ arg.fn = "is_diagnostics_clean_bash"
    /\ ~ret.done
    /\ ret' = [done |-> TRUE, value |-> is_diagnostics_clean_bash(arg.x)]
    /\ UNCHANGED <<log, out, arg>>

Call_diag_parse_transcript_recent ==
    /\ arg.fn = "post_diagnostics.parse_transcript_recent"
    /\ ~ret.done
    /\ ret' = [done |-> TRUE,
               value |-> diag_parse_transcript_recent(LogPath, arg.x.lines, arg.x.lookback)]
    /\ UNCHANGED <<log, out, arg>>

Call_review_parse_transcript_recent ==
    /\ arg.fn = "post_code_review.parse_transcript_recent"
    /\ ~ret.done
    /\ ret' = [done |-> TRUE,
               value |-> review_parse_transcript_recent(LogPath, arg.x.lines, arg.x.lookback)]
    /\ UNCHANGED <<log, out, arg>>

NextFn ==
    \/ Call_diag_parse_transcript_recent
    \/ Call_review_parse_transcript_recent
    \/ Call_is_diagnostics_clean_bash
    \/ Call_all_tasks_completed
    \/ Call_is_diagnostics_clean_mcp
    \/ Call_is_workflow_active_and_code_reviewer_not_called

SpecFn == InitFn /\ [][NextFn]_vars

---------------------------------------------------------------------------
(* Properties of the functions, under SpecFn *)

Max(S) == CHOOSE m \in S : \A n \in S : n <= m

\* position, counted from 0, of the last entry of h that satisfies P; -1 if none
LastPos(h, P(_)) ==
    LET S == {i \in 1..Len(h) : P(h[i])}
    IN IF S = {} THEN -1 ELSE Max(S) - 1

IsTodoWriteEntry(e) == "name" \in DOMAIN e /\ e.name = "TodoWrite"
IsReviewerEntry(e) ==
    /\ "name" \in DOMAIN e /\ e.name = "Task"
    /\ "input" \in DOMAIN e /\ "subagent_type" \in DOMAIN e.input
    /\ e.input.subagent_type = "code-reviewer"

lastTaskListPos(h) == LastPos(h, IsTodoWriteEntry)
lastReviewPos(h) == LastPos(h, IsReviewerEntry)

Returned(fn) == arg.fn = fn /\ ret.done

\* C1: for every history of tool-use events the stage-2 cycle guard returns true
\* iff lastTaskListPos > lastReviewPos and lastTaskListPos >= 0; it is true for
\* [TodoWrite@3, reviewer@7, TodoWrite@10], false for [TodoWrite@3, reviewer@7]
\* and false for a history without TodoWrite.
C1_CycleGuardRule ==
    Returned("is_workflow_active_and_code_reviewer_not_called") =>
        /\ ret.value <=> (/\ lastTaskListPos(arg.x) > lastReviewPos(arg.x)
                          /\ lastTaskListPos(arg.x) >= 0)
        /\ arg.x = HistoryFresh => ret.value
        /\ arg.x = HistoryStale => ~ret.value
        /\ (\A i \in DOMAIN arg.x : ~IsTodoWriteEntry(arg.x[i])) => ~ret.value

C1_Witness ==
    /\ Returned("is_workflow_active_and_code_reviewer_not_called")
    /\ arg.x = HistoryFresh
    /\ ret.value

\* C4: all_tasks_completed(S) is true iff S is non-empty and every task of S has
\* status completed: false for the empty snapshot, false if any task is pending,
\* in progress or without a status.
C4_AllCompletedIff ==
    Returned("all_tasks_completed") =>
        (ret.value <=>
            /\ Len(arg.x) > 0
            /\ \A i \in DOMAIN arg.x :
                 "status" \in DOMAIN arg.x[i] /\ arg.x[i].status = "completed")

C4_Witness ==
    /\ Returned("all_tasks_completed")
    /\ Len(arg.x) >= 2
    /\ \E i \in DOMAIN arg.x : "status" \notin DOMAIN arg.x[i]
    /\ \E i \in DOMAIN arg.x : arg.x[i] = Task("completed")
    /\ ~ret.value

\* C10: is_diagnostics_clean_mcp is false iff at least one finding has
\* severity <= 1; it is true when every finding has severity >= 2 and when
\* there are no findings.
C10_McpCleanIff ==
    Returned("is_diagnostics_clean_mcp") =>
        LET findings == IF "diagnostics" \in DOMAIN arg.x THEN arg.x.diagnostics ELSE <<>>
        IN (~ret.value) <=>
             \E i \in DOMAIN findings :
                 "severity" \in DOMAIN findings[i] /\ findings[i].severity <= 1

C10_Witness ==
    /\ Returned("is_diagnostics_clean_mcp")
    /\ "diagnostics" \in DOMAIN arg.x
    /\ Len(arg.x.diagnostics) = 2
    /\ arg.x.diagnostics[1] = [severity |-> 3]
    /\ arg.x.diagnostics[2] = [severity |-> 1]
    /\ ~ret.value

\* the output holds one of the failure markers of lines 96-105
HasFailureMarker(output) ==
    \E k \in DOMAIN error_patterns(output) : error_patterns(output)[k]

\* C11: is_diagnostics_clean_bash is true iff the exit status is 0 and the
\* output holds none of the failure markers, which are matched without regard
\* to case; an exit status other than 0 makes it false on its own, and a marker
\* makes it false whatever the exit status.
C11_BashCleanIff ==
    Returned("is_diagnostics_clean_bash") =>
        LET output == IF "output" \in DOMAIN arg.x THEN arg.x.output ELSE <<>>
            exit0 == "exit_code" \in DOMAIN arg.x /\ arg.x.exit_code = 0
        IN /\ ret.value <=> (exit0 /\ ~HasFailureMarker(output))
           /\ ~exit0 => ~ret.value
           /\ (\E i \in DOMAIN output :
                 output[i] \in {"FAILED", "failed", "Error:", CROSS}) => ~ret.value
           /\ (\E i \in DOMAIN output : i > 1 /\ output[i - 1] = "3"
                 /\ output[i] = "errors") => ~ret.value

C11_Witness ==
    /\ Returned("is_diagnostics_clean_bash")
    /\ "exit_code" \in DOMAIN arg.x /\ arg.x.exit_code = 0
    /\ "output" \in DOMAIN arg.x /\ arg.x.output = <<"Compilation", "failed">>
    /\ ~ret.value

---------------------------------------------------------------------------
(* Properties of the hooks, under Spec and SpecCorrupt *)

\* the Decision a hook process left: the empty object, or a block
IsEmptyDecision(r) == r.exit = 0 /\ r.printed /\ DOMAIN r.response = {}
IsTriggering(r) ==
    /\ r.printed
    /\ "decision" \in DOMAIN r.response
    /\ r.response.decision = "block"

IsToolUseLine(l, name) ==
    /\ l.kind = "object"
    /\ "type" \in DOMAIN l.value /\ l.value.type = "tool_use"
    /\ "name" \in DOMAIN l.value /\ l.value.name = name
IsTodoWriteLine(l) == IsToolUseLine(l, "TodoWrite")
IsReviewerLine(l) == IsToolUseLine(l, "Task") /\ IsReviewerEntry(l.value)

\* the task list a TodoWrite line carries; empty when it carries none
SnapshotOf(l) ==
    IF "input" \in DOMAIN l.value /\ "todos" \in DOMAIN l.value.input
    THEN l.value.input.todos ELSE <<>>

\* a reviewer invocation was appended after the most recent TodoWrite event
ReviewedSinceLastTodo ==
    LastPos(log, IsReviewerLine) > LastPos(log, IsTodoWriteLine)

Ran(hook) == out.hook = hook /\ out.stdin.kind = "object"
RequestField(k) == IF k \in DOMAIN out.stdin.value THEN out.stdin.value[k] ELSE "None"
ReadsLog == RequestField("transcript_path") = LogPath

\* the request is a diagnostics event whose result is clean
CleanDiagnosticsRequest ==
    /\ Ran("post_diagnostics")
    /\ \/ /\ RequestField("tool_name") = "mcp__vscode-mcp__get_diagnostics"
          /\ is_diagnostics_clean_mcp(out.stdin.value.tool_response)
       \/ /\ RequestField("tool_name") = "Bash"
          /\ is_diagnostics_clean_bash(out.stdin.value.tool_response)

\* C2: along every sequence of appends, once a reviewer invocation has been
\* appended after the most recent TodoWrite event, the stage-2 hook answers every
\* clean diagnostics event with the empty Decision until a new TodoWrite event is
\* appended; also when the transcript has outgrown the lookback window.  (The
\* hook keeps no state, so "at any later point" is "in every reachable state in
\* which the hook has just run on the transcript as it then is".)
C2_NoStage2AfterReview ==
    (CleanDiagnosticsRequest /\ ReviewedSinceLastTodo) => IsEmptyDecision(out.result)

C2_Witness ==
    /\ CleanDiagnosticsRequest /\ ReadsLog
    /\ ReviewedSinceLastTodo
    /\ Len(log) > DiagLookback
    /\ IsTodoWriteLine(log[1])
    /\ \A i \in DOMAIN log : IsToolUseLine(log[i], log[i].value.name)
    /\ IsEmptyDecision(out.result)

\* C3: when the most recent TodoWrite event of the transcript carries an empty
\* or no task list, the stage-1 hook returns the empty Decision, whatever the
\* earlier TodoWrite events carry.
C3_EmptyLatestNeverFires ==
    LET p == LastPos(log, IsTodoWriteLine) IN
    (/\ Ran("post_todowrite") /\ RequestField("tool_name") = "TodoWrite" /\ ReadsLog
     /\ p >= 0 /\ SnapshotOf(log[p + 1]) = <<>>)
        => IsEmptyDecision(out.result)

\* C5: the stage-2 hook returns the empty Decision whenever the history holds no
\* TodoWrite event with an all-completed snapshot, as for the transcript of one
\* TodoWrite event with two tasks (one completed, one pending) and a Bash
\* diagnostics run with exit status 0 and no failure marker.
C5_Stage2NeedsAllComplete ==
    (/\ Ran("post_diagnostics")
     /\ \A i \in DOMAIN log :
          IsTodoWriteLine(log[i]) =>
              \/ SnapshotOf(log[i]) = <<>>
              \/ \E k \in DOMAIN SnapshotOf(log[i]) :
                    SnapshotOf(log[i])[k] # Task("completed"))
        => IsEmptyDecision(out.result)

\* C6: when every TodoWrite event of the history precedes an earlier reviewer
\* invocation, a further reviewer invocation gets the empty Decision from the
\* stage-3 hook.
C6_NoStage3FromOldCycle ==
    (Ran("post_code_review") /\ ReviewedSinceLastTodo) => IsEmptyDecision(out.result)

\* C7: each of the three hooks answers an unparsable stdin payload with exit
\* status 0 and the empty object on stdout.
C7_MalformedRequestUniform ==
    (out.hook # "idle" /\ out.stdin.kind = "garbage") => IsEmptyDecision(out.result)

\* C8: every hook run on a parseable request prints exactly one response and
\* exits 0; a request without log reference or with another tool name gets the
\* empty object, from each of the three hooks.
C8_AlwaysOneResponse ==
    (out.hook # "idle" /\ out.stdin.kind = "object") =>
        /\ out.result.exit = 0 /\ out.result.printed
        /\ RequestField("transcript_path") = "None" => IsEmptyDecision(out.result)
        /\ RequestField("tool_name") \in {"Read", "Bash", "TodoWrite"}
             /\ out.hook = "post_code_review" => IsEmptyDecision(out.result)
        /\ RequestField("tool_name") = "Read" /\ out.hook = "post_diagnostics"
             => IsEmptyDecision(out.result)
        /\ RequestField("tool_name") = "Bash" /\ out.hook = "post_todowrite"
             => IsEmptyDecision(out.result)

HookMain(hook, stdin, lines) ==
    CASE hook = "post_todowrite" -> post_todowrite_main(stdin, lines)
      [] hook = "post_diagnostics" -> post_diagnostics_main(stdin, lines)
      [] hook = "post_code_review" -> post_code_review_main(stdin, lines)

\* the line decodes to an event record
DecodesToEvent(l) == l.kind = "object"

\* C9: on a transcript that mixes event lines with lines that do not decode to
\* an event record (text that is not JSON, or JSON that is not an object) each
\* hook decides as on the transcript without those lines, and no exception
\* leaves the hook.
C9_CorruptLinesSkipped ==
    (out.hook # "idle" /\ out.stdin.kind = "object") =>
        /\ out.result = HookMain(out.hook, out.stdin, SelectSeq(log, DecodesToEvent))
        /\ out.result # Traceback

---------------------------------------------------------------------------
(* Further properties of the hooks, under Spec *)

RequestInputField(k) ==
    IF "tool_input" \in DOMAIN out.stdin.value /\ k \in DOMAIN out.stdin.value.tool_input
    THEN out.stdin.value.tool_input[k] ELSE "None"

\* the entries the stage-3 hook scans: the last ReviewLookback decoded lines of
\* the transcript the request names
TodoWriteInReviewWindow ==
    LET decoded == SelectSeq(log, DecodesToEvent) IN
    /\ ReadsLog
    /\ \E i \in DOMAIN decoded :
         i > Len(decoded) - ReviewLookback /\ IsTodoWriteLine(decoded[i])

\* C12: the stage-3 hook emits a triggering Decision iff the action is Task, its
\* subagent_type is code-reviewer and the scanned history holds a TodoWrite tool
\* use; any other role, and a reviewer invocation without TodoWrite in the
\* scanned history, get the empty Decision.
C12_Stage3TriggerIff ==
    Ran("post_code_review") =>
        /\ IsTriggering(out.result) <=>
              /\ RequestField("tool_name") = "Task"
              /\ RequestInputField("subagent_type") = "code-reviewer"
              /\ TodoWriteInReviewWindow
        /\ ~IsTriggering(out.result) => IsEmptyDecision(out.result)

C12_Witness ==
    /\ Ran("post_code_review") /\ ReadsLog
    /\ RequestInputField("subagent_type") = "code-reviewer"
    /\ Len(SelectSeq(log, DecodesToEvent)) > ReviewLookback
    /\ IsTodoWriteLine(log[1])
    /\ ~TodoWriteInReviewWindow
    /\ IsEmptyDecision(out.result)

\* the request is one the hook acts on
MatchingRequest ==
    \/ Ran("post_todowrite") /\ RequestField("tool_name") = "TodoWrite"
    \/ Ran("post_diagnostics")
         /\ RequestField("tool_name") \in {"mcp__vscode-mcp__get_diagnostics", "Bash"}
    \/ Ran("post_code_review") /\ RequestField("tool_name") = "Task"
         /\ RequestInputField("subagent_type") = "code-reviewer"

\* the transcript the request names is missing, cannot be read, or is empty
LogUnavailable ==
    \/ RequestField("transcript_path") \in {MissingPath, UnreadablePath}
    \/ ReadsLog /\ log = <<>>

\* C13: when the log path of a well-formed matching request names no file or a
\* file that cannot be read, or the log is empty, each hook returns the empty
\* Decision with exit status 0 and raises nothing.
C13_LogUnavailableNoOp ==
    (MatchingRequest /\ LogUnavailable) =>
        IsEmptyDecision(out.result) /\ out.result # Traceback

C13_Witness ==
    /\ Ran("post_todowrite") /\ RequestField("tool_name") = "TodoWrite"
    /\ RequestField("transcript_path") = UnreadablePath
    /\ \E i \in DOMAIN log : IsTodoWriteLine(log[i]) /\ SnapshotOf(log[i]) = AllDone3
    /\ IsEmptyDecision(out.result)

AllCompleted(snapshot) ==
    /\ snapshot # <<>>
    /\ \A k \in DOMAIN snapshot :
         "status" \in DOMAIN snapshot[k] /\ snapshot[k].status = "completed"

Min(a, b) == IF a < b THEN a ELSE b

\* the final Min(n, total) records of recs, in order
FinalRecords(recs, n) ==
    LET m == Min(n, Len(recs)) IN [k \in 1..m |-> recs[Len(recs) - m + k]]

\* the records each reader parses out of a transcript, in file order
DiagRecordsOf(lines) ==
    LET kept == SelectSeq(lines, LAMBDA l : IsToolUseLine(l, l.value.name))
    IN [k \in DOMAIN kept |-> kept[k].value]

ReviewRecordsOf(lines) == SelectSeq(lines, DecodesToEvent)

\* C14: for every log and every lookback N >= 0, parse_transcript_recent (of
\* post_diagnostics and of post_code_review) returns the final min(N, total)
\* parsed records in file order, so never more than N records.
C14_LookbackExact ==
    /\ Returned("post_diagnostics.parse_transcript_recent") =>
         /\ ~ret.value.raised
         /\ ret.value.value = FinalRecords(DiagRecordsOf(arg.x.lines), arg.x.lookback)
         /\ Len(ret.value.value) <= arg.x.lookback
    /\ Returned("post_code_review.parse_transcript_recent") =>
         /\ ~ret.value.raised
         /\ ret.value.value = FinalRecords(ReviewRecordsOf(arg.x.lines), arg.x.lookback)
         /\ Len(ret.value.value) <= arg.x.lookback

\* the same for N >= 1, where the slice [-N:] is the last N records
C14_LookbackPositive ==
    /\ (Returned("post_diagnostics.parse_transcript_recent") /\ arg.x.lookback >= 1) =>
         ret.value.value = FinalRecords(DiagRecordsOf(arg.x.lines), arg.x.lookback)
    /\ (Returned("post_code_review.parse_transcript_recent") /\ arg.x.lookback >= 1) =>
         ret.value.value = FinalRecords(ReviewRecordsOf(arg.x.lines), arg.x.lookback)

CompletelyWritten(l) == l.kind # "partial"

\* C17: a hook that reads the transcript while the producer is appending to it,
\* and so may see a partially written last line, decides as on the completely
\* written lines it sees; the partial line causes no failure and no event.
C17_PartialTailTolerated ==
    (out.hook # "idle" /\ out.stdin.kind = "object") =>
        /\ out.result = HookMain(out.hook, out.stdin, SelectSeq(log, CompletelyWritten))
        /\ out.result # Traceback

\* the same when the last line is cut between two characters
C17_BoundaryCutTolerated ==
    (/\ out.hook # "idle" /\ out.stdin.kind = "object"
     /\ WriteInProgress /\ log[Len(log)].cut = "boundary") =>
        /\ out.result = HookMain(out.hook, out.stdin, SelectSeq(log, CompletelyWritten))
        /\ out.result # Traceback

\* the diagnostics result of the request is not clean: a finding of severity
\* error or warning, or a command that failed or printed a failure marker
UncleanDiagnosticsRequest ==
    /\ Ran("post_diagnostics")
    /\ "tool_response" \in DOMAIN out.stdin.value
    /\ LET r == out.stdin.value.tool_response IN
       \/ /\ RequestField("tool_name") = "mcp__vscode-mcp__get_diagnostics"
          /\ "diagnostics" \in DOMAIN r
          /\ \E k \in DOMAIN r.diagnostics :
               "severity" \in DOMAIN r.diagnostics[k] /\ r.diagnostics[k].severity <= 1
       \/ /\ RequestField("tool_name") = "Bash"
          /\ \/ "exit_code" \notin DOMAIN r
             \/ r.exit_code # 0
             \/ "output" \in DOMAIN r /\ HasFailureMarker(r.output)

\* the cycle guard holds of the whole transcript
CycleGuardOnLog ==
    /\ LastPos(log, IsTodoWriteLine) >= 0
    /\ LastPos(log, IsTodoWriteLine) > LastPos(log, IsReviewerLine)

\* C18: when the diagnostics result of the request is not clean, the stage-2
\* hook returns the empty Decision whatever the log holds, also when the log
\* satisfies the cycle guard.
C18_UncleanNeverAdvances ==
    UncleanDiagnosticsRequest => IsEmptyDecision(out.result)

C18_Witness ==
    /\ UncleanDiagnosticsRequest /\ ReadsLog
    /\ RequestField("tool_name") = "Bash"
    /\ "exit_code" \in DOMAIN out.stdin.value.tool_response
    /\ out.stdin.value.tool_response.exit_code = 0
    /\ CycleGuardOnLog
    /\ IsEmptyDecision(out.result)

\* C19: truncation to the lookback window is conservative: when the stage-2
\* hook fires, that is when the cycle guard holds of the window of the last
\* DiagLookback tool-use records, the cycle guard also holds of the complete
\* tool-use history of the log.
C19_WindowImpliesHistory ==
    (Ran("post_diagnostics") /\ IsTriggering(out.result))
        => ReadsLog /\ CycleGuardOnLog

C19_Witness ==
    /\ Ran("post_diagnostics") /\ IsTriggering(out.result)
    /\ Len(SelectSeq(log, LAMBDA l : IsToolUseLine(l, l.value.name))) > DiagLookback
    /\ IsReviewerLine(log[1])

\* the request the hook ran on, with another task list as its tool_input
WithTaskList(todos) ==
    [out.stdin EXCEPT !.value =
        [k \in DOMAIN out.stdin.value \cup {"tool_input"} |->
            IF k = "tool_input" THEN [todos |-> todos] ELSE out.stdin.value[k]]]

\* the latest non-empty task list of the log; empty when there is none
LatestNonEmptySnapshot ==
    LET p == LastPos(log, LAMBDA l : IsTodoWriteLine(l) /\ SnapshotOf(l) # <<>>)
    IN IF p < 0 THEN <<>> ELSE SnapshotOf(log[p + 1])

C15_Stage1Fires ==
    LET p == LastPos(log, IsTodoWriteLine) IN
    (/\ Ran("post_todowrite") /\ RequestField("tool_name") = "TodoWrite" /\ ReadsLog
     /\ p >= 0 /\ AllCompleted(SnapshotOf(log[p + 1])))
        => /\ IsTriggering(out.result)
           /\ out.result.exit = 0
           /\ out.result.response.hookSpecificOutput.completedTasks
                = Len(SnapshotOf(log[p + 1]))
           /\ SnapshotOf(log[p + 1]) = AllDone3
                => out.result.response.hookSpecificOutput.completedTasks = 3

C15_Witness ==
    /\ Ran("post_todowrite") /\ ReadsLog
    /\ Len(log) >= 2
    /\ log[1] = TodoWriteLine(Mixed2)
    /\ log[Len(log)] = TodoWriteLine(AllDone3)
    /\ IsTriggering(out.result)
    /\ out.result.response.hookSpecificOutput.completedTasks = 3

====
